---- MODULE Spec2Model ----
(***************************************************************************)
(* A model of two parts of knative-kafka:                                  *)
(*   - the Azure EventHub namespace cache (eventhubcache/cache.go), and    *)
(*   - the dispatcher's KafkaChannel reconciler (controller/kafkachannel.go)*)
(*                                                                         *)
(* Namespace structs live on a heap: a *Namespace is an index into `heap`, *)
(* 0 is the nil pointer.  Both maps of the cache hold such pointers, so    *)
(* two entries can share one struct or refer to different generations of   *)
(* a namespace with the same name.  As in Go, a struct that nothing refers *)
(* to any more is collected: after each call the heap keeps the structs    *)
(* reachable from the two maps and from the callers, in allocation order.  *)
(***************************************************************************)
EXTENDS Integers, Sequences, FiniteSets, TLC

VARIABLES
    heap,          \* Seq of [Name, Count]: every Namespace struct allocated so far
    namespaceMap,  \* Cache.namespaceMap: namespace name -> *Namespace
    eventhubMap,   \* Cache.eventhubMap: eventhub (topic) name -> *Namespace
    held,          \* the *Namespace values callers keep between calls
    last,          \* the cache call that has just returned: its arguments and
                   \* what it returned; NoCall once the caller has gone on
    channels,      \* the KafkaChannel resources of the cluster, by key
    consumers,     \* Dispatcher: consumer group id -> the Subscription running
    rc,            \* the Reconcile call in progress: where it is, its locals
    threads,       \* goroutines inside a cache call: thread -> its call, where
                   \* it is in the call's code, its locals
    start,         \* the cache as it was before the goroutines made their calls
    mutex,         \* Dispatcher: the caller holding its lock, "" when free
    converging,    \* Dispatcher: caller -> its UpdateSubscriptions call in progress
    converged      \* Dispatcher: the last two UpdateSubscriptions calls completed

cacheVars == <<heap, namespaceMap, eventhubMap, held>>
reconVars == <<channels, consumers, rc>>
concVars == <<threads, start>>
dispVars == <<mutex, converging, converged>>
vars == <<heap, namespaceMap, eventhubMap, held, last, channels, consumers, rc,
          threads, start, mutex, converging, converged>>

----------------------------------------------------------------------------
(* Bounds and input domains *)

\* constants.MaxEventHubsPerNamespace, scaled down
MaxEventHubsPerNamespace == 2
\* how many secrets one Update sees
MaxSecrets == 2

nil == 0

NamespaceNames == {"ns1", "ns2"}
EventHubNames == {"t1", "t2"}

Ptrs == 1..Len(heap)

\* What HubManager.List returns: an error, or the eventhubs of the namespace
Listings ==
    {[err |-> FALSE, hubs |-> l] : l \in SUBSET EventHubNames}
      \cup {[err |-> TRUE, hubs |-> {}]}
NoHubs == [err |-> FALSE, hubs |-> {}]

\* A Kafka secret: the four data fields validateKafkaSecret reads, and what
\* listing the namespace's eventhubs will return.
MkSecret(b, u, p, n, l) ==
    [brokers |-> b, username |-> u, password |-> p, namespace |-> n, list |-> l]

\* Secrets Update gets through: all four fields set, the listing succeeds
GoodSecrets ==
    {MkSecret("b", "u", "p", n, l) :
        n \in NamespaceNames, l \in {x \in Listings : ~x.err}}
\* Secrets Update stops at: a field is empty, or the listing fails
BadSecrets ==
    { MkSecret("", "u", "p", "ns1", NoHubs), MkSecret("b", "", "p", "ns1", NoHubs),
      MkSecret("b", "u", "", "ns1", NoHubs), MkSecret("b", "u", "p", "", NoHubs) }
      \cup {MkSecret("b", "u", "p", n, [err |-> TRUE, hubs |-> {}]) :
               n \in NamespaceNames}

SeqsUpTo(S, n) == UNION { [1..k -> S] : k \in 0..n }

\* Every secret is of another Azure namespace, and an eventhub is in one
\* namespace: the cache keeps one namespace per name and per eventhub.
Distinct(items) ==
    \A i, j \in 1..Len(items) :
       i # j => /\ items[i].namespace # items[j].namespace
                /\ items[i].list.hubs \cap items[j].list.hubs = {}

\* The lists of secrets util.GetKafkaSecrets may return.  Update returns at
\* the first secret it stops at and reads nothing after it, so a list is
\* given up to that secret.
SecretLists ==
    {s \in SeqsUpTo(GoodSecrets, MaxSecrets)
            \cup {Append(g, b) : g \in SeqsUpTo(GoodSecrets, MaxSecrets - 1),
                                 b \in BadSecrets} : Distinct(s)}

\* What util.GetKafkaSecrets returns: an error, or the list of secrets
SecretsErr == [err |-> TRUE, items |-> <<>>]
Snapshots == {[err |-> FALSE, items |-> s] : s \in SecretLists} \cup {SecretsErr}
NoSnapshot == [err |-> FALSE, items |-> <<>>]

\* A record of one call: ret is the *Namespace returned (nil if none), err
\* the error returned ("" for a nil error)
Call(o, e, n, s, ord, r, er) ==
    [op |-> o, eventhub |-> e, namespace |-> n, snapshot |-> s, order |-> ord,
     ret |-> r, err |-> er]
NoCall == Call("none", "", nil, NoSnapshot, <<>>, nil, "")

----------------------------------------------------------------------------
(* The cache *)

\* m[k] = v for a Go map m
Put(m, k, v) == (k :> v) @@ m
\* delete(m, k)
Delete(m, k) == [x \in (DOMAIN m) \ {k} |-> m[x]]
\* m[k], the zero value (nil) when k is absent
Lookup(m, k) == IF k \in DOMAIN m THEN m[k] ELSE nil

Range(m) == {m[k] : k \in DOMAIN m}

\* NewCache: two empty maps
NewCache ==
    /\ heap = <<>>
    /\ namespaceMap = <<>>
    /\ eventhubMap = <<>>

\* The structs still referred to: by the maps, by the callers (roots)
Live(c, roots) == (Range(c.namespaceMap) \cup Range(c.eventhubMap) \cup roots) \ {nil}

\* Where the collector leaves struct p: its rank among the live structs
Moved(live, p) == IF p = nil THEN nil ELSE Cardinality({q \in live : q <= p})

\* The cache c with the structs nothing refers to dropped from the heap
Collect(c, roots) ==
    LET live == Live(c, roots)
        at(i) == CHOOSE p \in live : Moved(live, p) = i
    IN [heap |-> [i \in 1..Cardinality(live) |-> c.heap[at(i)]],
        namespaceMap |-> [k \in DOMAIN c.namespaceMap |-> Moved(live, c.namespaceMap[k])],
        eventhubMap |-> [k \in DOMAIN c.eventhubMap |-> Moved(live, c.eventhubMap[k])]]

\* The state after a call that left the cache as c and returned `call`
Commit(c, call) ==
    LET roots == held \cup {call.namespace, call.ret}
        live == Live(c, roots)
        d == Collect(c, roots)
    IN /\ heap' = d.heap
       /\ namespaceMap' = d.namespaceMap
       /\ eventhubMap' = d.eventhubMap
       /\ held' = {Moved(live, p) : p \in held}
       /\ last' = [call EXCEPT !.namespace = Moved(live, call.namespace),
                               !.ret = Moved(live, call.ret)]
       /\ UNCHANGED <<reconVars, concVars, dispVars>>

validateKafkaSecret(secret) ==
    /\ Len(secret.brokers) > 0
    /\ Len(secret.username) > 0
    /\ Len(secret.password) > 0
    /\ Len(secret.namespace) > 0

\* NewNamespaceFromKafkaSecret: a fresh struct named after the secret, no eventhubs
NewNamespaceFromKafkaSecret(secret) == [Name |-> secret.namespace, Count |-> 0]

\* The inner loop leaving alone the eventhubs that are in the map already
UpdateEventHubs_KeepOld(c, namespace, eventHubs) ==
    [c EXCEPT
       !.eventhubMap = [e \in (DOMAIN c.eventhubMap) \cup eventHubs |->
                          IF e \in DOMAIN c.eventhubMap THEN c.eventhubMap[e]
                          ELSE namespace],
       !.heap[namespace].Count = c.heap[namespace].Count + Cardinality(eventHubs)]

\* The inner loop of Update over the eventhubs listed for `namespace`
UpdateEventHubs(c, namespace, eventHubs) ==
    [c EXCEPT
       !.eventhubMap = [e \in (DOMAIN c.eventhubMap) \cup eventHubs |->
                          IF e \in eventHubs THEN namespace ELSE c.eventhubMap[e]],
       !.heap[namespace].Count = c.heap[namespace].Count + Cardinality(eventHubs)]

\* The outer loop of Update from secret i on; c is the cache so far
RECURSIVE UpdateSecrets(_, _, _)
UpdateSecrets(c, items, i) ==
    IF i > Len(items) THEN [c EXCEPT !.err = ""]
    ELSE IF ~validateKafkaSecret(items[i]) THEN [c EXCEPT !.err = "invalid"]
    ELSE
      LET namespace == Len(c.heap) + 1
          c1 == [c EXCEPT
                   !.heap = Append(c.heap, NewNamespaceFromKafkaSecret(items[i])),
                   !.namespaceMap = Put(c.namespaceMap, items[i].namespace, namespace)]
      IN IF items[i].list.err THEN [c1 EXCEPT !.err = "list"]
         ELSE UpdateSecrets(UpdateEventHubs(c1, namespace, items[i].list.hubs),
                            items, i + 1)

\* Cache.Update as a function of the cache and of what K8S and Azure return
UpdateResult(c, snapshot) ==
    IF snapshot.err THEN [c EXCEPT !.err = "secrets"]
    ELSE UpdateSecrets(c, snapshot.items, 1)

TheCache ==
    [heap |-> heap, namespaceMap |-> namespaceMap, eventhubMap |-> eventhubMap,
     err |-> ""]

Update(snapshot) ==
    /\ last = NoCall
    /\ LET r == UpdateResult(TheCache, snapshot)
       IN Commit(r, Call("Update", "", nil, snapshot, <<>>, nil, r.err))

\* AddEventHub admitting a namespace that is already full (<= for <)
AddEventHubResult_OffByOne(c, eventhub, namespace) ==
    IF namespace # nil /\ c.heap[namespace].Count <= MaxEventHubsPerNamespace
    THEN [c EXCEPT !.heap[namespace].Count = c.heap[namespace].Count + 1,
                   !.eventhubMap = Put(c.eventhubMap, eventhub, namespace)]
    ELSE c

\* AddEventHub testing the capacity for the count only: a full namespace
\* still gets the eventhub entry
AddEventHubResult_MapWhenFull(c, eventhub, namespace) ==
    IF namespace # nil
    THEN [c EXCEPT !.heap[namespace].Count =
                       IF @ < MaxEventHubsPerNamespace THEN @ + 1 ELSE @,
                   !.eventhubMap = Put(c.eventhubMap, eventhub, namespace)]
    ELSE c

\* The cache after AddEventHub(eventhub, namespace)
AddEventHubResult(c, eventhub, namespace) ==
    IF namespace # nil /\ c.heap[namespace].Count < MaxEventHubsPerNamespace
    THEN [c EXCEPT !.heap[namespace].Count = c.heap[namespace].Count + 1,
                   !.eventhubMap = Put(c.eventhubMap, eventhub, namespace)]
    ELSE c

AddEventHub(eventhub, namespace) ==
    /\ last = NoCall
    /\ Commit(AddEventHubResult(TheCache, eventhub, namespace),
              Call("AddEventHub", eventhub, namespace, NoSnapshot, <<>>, nil, ""))

GetNamespaceOf(c, eventhub) == Lookup(c.eventhubMap, eventhub)

\* RemoveEventHub decrementing the count without the test that it is positive
RemoveEventHubResult_Unchecked(c, eventhub) ==
    LET namespace == GetNamespaceOf(c, eventhub)
        c1 == IF namespace # nil
              THEN [c EXCEPT !.heap[namespace].Count = c.heap[namespace].Count - 1]
              ELSE c
    IN [c1 EXCEPT !.eventhubMap = Delete(c.eventhubMap, eventhub)]

\* The cache after RemoveEventHub(eventhub)
RemoveEventHubResult(c, eventhub) ==
    LET namespace == GetNamespaceOf(c, eventhub)
        c1 == IF namespace # nil /\ c.heap[namespace].Count > 0
              THEN [c EXCEPT !.heap[namespace].Count = c.heap[namespace].Count - 1]
              ELSE c
    IN [c1 EXCEPT !.eventhubMap = Delete(c.eventhubMap, eventhub)]

RemoveEventHub(eventhub) ==
    /\ last = NoCall
    /\ Commit(RemoveEventHubResult(TheCache, eventhub),
              Call("RemoveEventHub", eventhub, nil, NoSnapshot, <<>>, nil, ""))

GetNamespace(eventhub) ==
    /\ last = NoCall
    /\ Commit(TheCache,
              Call("GetNamespace", eventhub, nil, NoSnapshot, <<>>,
                   GetNamespaceOf(TheCache, eventhub), ""))

\* The loop body with the comparison of the counts turned round: it keeps
\* the fuller namespace
ScanNamespace_Fuller(h, namespace, maxCapacityNamespace) ==
    IF namespace = nil
    THEN [max |-> maxCapacityNamespace, break |-> FALSE]
    ELSE IF maxCapacityNamespace = nil
            /\ h[namespace].Count < MaxEventHubsPerNamespace
    THEN [max |-> namespace, break |-> FALSE]
    ELSE IF maxCapacityNamespace # nil
    THEN IF h[maxCapacityNamespace].Count = 0
         THEN [max |-> maxCapacityNamespace, break |-> TRUE]
         ELSE IF h[namespace].Count > h[maxCapacityNamespace].Count
         THEN [max |-> namespace, break |-> FALSE]
         ELSE [max |-> maxCapacityNamespace, break |-> FALSE]
    ELSE [max |-> maxCapacityNamespace, break |-> FALSE]

\* The body of the loop of GetNamespaceWithMaxCapacity for one namespace of
\* the map: maxCapacityNamespace after it, and whether the loop breaks
ScanNamespace(h, namespace, maxCapacityNamespace) ==
    IF namespace = nil
    THEN [max |-> maxCapacityNamespace, break |-> FALSE]
    ELSE IF maxCapacityNamespace = nil
            /\ h[namespace].Count < MaxEventHubsPerNamespace
    THEN [max |-> namespace, break |-> FALSE]
    ELSE IF maxCapacityNamespace # nil
    THEN IF h[maxCapacityNamespace].Count = 0
         THEN [max |-> maxCapacityNamespace, break |-> TRUE]
         ELSE IF h[namespace].Count < h[maxCapacityNamespace].Count
         THEN [max |-> namespace, break |-> FALSE]
         ELSE [max |-> maxCapacityNamespace, break |-> FALSE]
    ELSE [max |-> maxCapacityNamespace, break |-> FALSE]

\* The loop of GetNamespaceWithMaxCapacity over the map in iteration order
\* `order`, from position i on, with maxCapacityNamespace as found so far
RECURSIVE MaxCapacityScan(_, _, _, _, _)
MaxCapacityScan(h, nsMap, order, i, maxCapacityNamespace) ==
    IF i > Len(order) THEN maxCapacityNamespace
    ELSE
      LET step == ScanNamespace(h, nsMap[order[i]], maxCapacityNamespace)
      IN IF step.break THEN step.max
         ELSE MaxCapacityScan(h, nsMap, order, i + 1, step.max)

\* Every order in which `range` may visit the keys of m
IterationOrders(m) ==
    { o \in [1..Cardinality(DOMAIN m) -> DOMAIN m] :
        \A i, j \in DOMAIN o : i # j => o[i] # o[j] }

GetNamespaceWithMaxCapacity(order) ==
    /\ last = NoCall
    /\ Commit(TheCache,
              Call("GetNamespaceWithMaxCapacity", "", nil, NoSnapshot, order,
                   MaxCapacityScan(heap, namespaceMap, order, 1, nil), ""))

----------------------------------------------------------------------------
(* Spec: one caller at a time uses a cache built by NewCache *)

----------------------------------------------------------------------------
(* The KafkaChannel reconciler of the dispatcher *)

\* how many subscribers a channel declares
MaxSubscribers == 2

\* A Go slice: nil, or a sequence of elements (possibly none)
NilSlice == [isNil |-> TRUE, elems |-> <<>>]
Slice(elems) == [isNil |-> FALSE, elems |-> elems]

UIDs == {"u1", "u2"}

\* eventingduck.SubscriberSpec, the fields the reconciler reads: subscriber
\* u1 in two generations, the second with another URI, and subscriber u2
SubscriberSpec(uid, uri, generation) ==
    [UID |-> uid, SubscriberURI |-> uri, Generation |-> generation]
SubscriberSpecs ==
    { SubscriberSpec("u1", "http://a", 1), SubscriberSpec("u1", "http://b", 2),
      SubscriberSpec("u2", "http://a", 1) }

\* What Spec.Subscribers of a channel may be
SubscriberLists ==
    {NilSlice} \cup {Slice(l) : l \in SeqsUpTo(SubscriberSpecs, MaxSubscribers)}

\* A KafkaChannel: the declared subscribers, and the status: the readiness
\* condition and the SubscribableStatus
KafkaChannel(subscribers, ready, subscriberStatus) ==
    [Spec |-> [Subscribers |-> subscribers],
     Status |-> [Ready |-> ready, Subscribers |-> subscriberStatus]]

\* A channel as its controller creates it
NewChannel == KafkaChannel(NilSlice, FALSE, NilSlice)

\* Keys as the workqueue delivers them, split at "/"
ChannelKey == <<"ns", "kc">>
OtherKey == <<"ns", "other">>
GoneKey == <<"ns", "gone">>
BadKey == <<"ns", "kc", "x">>
Keys == {ChannelKey, OtherKey, GoneKey, BadKey}

\* cache.SplitMetaNamespaceKey: "name", "namespace/name", or an error
SplitMetaNamespaceKey(key) ==
    IF Len(key) = 1 THEN [err |-> FALSE, namespace |-> "", name |-> key[1]]
    ELSE IF Len(key) = 2 THEN [err |-> FALSE, namespace |-> key[1], name |-> key[2]]
    ELSE [err |-> TRUE, namespace |-> "", name |-> ""]

\* kafkachannelLister.KafkaChannels(namespace).Get(name); the lister fails
\* when `fails`
ListerGet(namespace, name, fails) ==
    IF fails THEN [err |-> "lister error", channel |-> NewChannel]
    ELSE IF <<namespace, name>> \notin DOMAIN channels
    THEN [err |-> "not found", channel |-> NewChannel]
    ELSE [err |-> "", channel |-> channels[<<namespace, name>>]]

IsNotFound(err) == err = "not found"
\* Every channel taken as ready
IsReady_Always(status) == TRUE
\* original.Status.IsReady()
IsReady(status) == status.Ready
DeepCopy(channel) == channel

\* fmt.Sprintf("kafka.%s", uid)
GroupIdOf(uid) == "kafka." \o uid
GroupIds == {GroupIdOf(uid) : uid \in UIDs}

\* dispatcher.Subscription
Subscription(uri, groupId) == [URI |-> uri, GroupId |-> groupId]

\* The frame of a Reconcile call: pc is where it is, err what it returned;
\* called, subscriptions and failed record the Dispatcher call it made;
\* compared whether updateStatus got to compare the statuses, observed the
\* status it read for that, wrote whether it called UpdateStatus.
Frame(pc, key, channel, err) ==
    [pc |-> pc, key |-> key, channel |-> channel, reconcileError |-> "",
     called |-> FALSE, subscriptions |-> <<>>, failed |-> <<>>,
     compared |-> FALSE, observed |-> NewChannel.Status, wrote |-> FALSE,
     err |-> err]
Idle == Frame("idle", <<>>, NewChannel, "")

\* No channel, no consumer, no Reconcile call
NoReconciler ==
    /\ channels = <<>>
    /\ consumers = <<>>
    /\ rc = Idle

\* No goroutine is inside a cache call: the calls are made one at a time
NoThreads ==
    /\ threads = <<>>
    /\ start = <<>>

\* What `converged` keeps of a completed UpdateSubscriptions call: the
\* desired set, the consumers before it, the groups whose Start or Stop
\* failed during it, the Subscriptions it called Start and Stop for, the
\* failures it returned
Completed(desired, before, failing, starts, stops, failed) ==
    [desired |-> desired, before |-> before, failing |-> failing,
     starts |-> starts, stops |-> stops, failed |-> failed]
NoneCompleted == Completed({}, <<>>, {}, {}, {}, <<>>)

\* Of the call before the last, `converged` keeps the desired set and the
\* failures
Earlier(c) == Completed(c.desired, <<>>, {}, {}, {}, c.failed)

\* The Dispatcher is called by the Reconcile call only, one call at a time
NoCallers ==
    /\ mutex = ""
    /\ converging = <<>>
    /\ converged = [n |-> 0, prev |-> NoneCompleted, cur |-> NoneCompleted]

\* The Dispatcher's running consumer processes are kept per Subscription:
\* `running` maps a Subscription to the number of its processes.
RunningGroups(running) == {s.GroupId : s \in DOMAIN running}

\* The number of consumer processes of group g
ProcessesOf(running, g) ==
    LET of == {s \in DOMAIN running : s.GroupId = g}
        RECURSIVE Sum(_)
        Sum(S) == IF S = {} THEN 0
                  ELSE LET s == CHOOSE x \in S : TRUE
                       IN running[s] + Sum(S \ {s})
    IN Sum(of)

\* Start(groupId, uri): one more consumer process for s
StartConsumer(running, s) ==
    IF s \in DOMAIN running THEN [running EXCEPT ![s] = @ + 1]
    ELSE Put(running, s, 1)

\* Stop(groupId): the processes of s are gone
StopConsumer(running, s) == Delete(running, s)

DesiredGroups(subscriptions) ==
    {subscriptions[i].GroupId : i \in 1..Len(subscriptions)}

\* Every desired Subscription taken as missing, running or not
Missing_All(running, subscriptions) == subscriptions

\* The difference of desired and running, by consumer group: the desired
\* Subscriptions whose group is not running, in the order given
Missing(running, subscriptions) ==
    LET absent(s) == s.GroupId \notin RunningGroups(running)
    IN SelectSeq(subscriptions, absent)

\* The difference of running and desired, by consumer group: the running
\* Subscriptions whose group is not desired
Extra(running, subscriptions) ==
    {s \in DOMAIN running : s.GroupId \notin DesiredGroups(subscriptions)}

\* The starts given up at the first Start that fails
RECURSIVE StartDesired_GiveUp(_, _, _, _)
StartDesired_GiveUp(r, missing, i, failing) ==
    IF i > Len(missing) THEN r
    ELSE
      LET s == missing[i]
      IN IF s.GroupId \in r.started
         THEN StartDesired_GiveUp(r, missing, i + 1, failing)
         ELSE IF s.GroupId \in failing
         THEN [r EXCEPT !.failed = Put(r.failed, s, "start failed"),
                        !.starts = r.starts \cup {s}]
         ELSE StartDesired_GiveUp([r EXCEPT !.consumers = StartConsumer(r.consumers, s),
                                            !.starts = r.starts \cup {s},
                                            !.started = r.started \cup {s.GroupId}],
                                  missing, i + 1, failing)

\* Dispatcher.UpdateSubscriptions, the starts: each missing Subscription
\* whose group this call has not started yet is started; a start of a
\* group in `failing` fails.  r holds the consumers, the failures and the
\* Start and Stop operations so far.
RECURSIVE StartDesired(_, _, _, _)
StartDesired(r, missing, i, failing) ==
    IF i > Len(missing) THEN r
    ELSE
      LET s == missing[i]
      IN IF s.GroupId \in r.started
         THEN StartDesired(r, missing, i + 1, failing)
         ELSE IF s.GroupId \in failing
         THEN StartDesired([r EXCEPT !.failed = Put(r.failed, s, "start failed"),
                                     !.starts = r.starts \cup {s}],
                           missing, i + 1, failing)
         ELSE StartDesired([r EXCEPT !.consumers = StartConsumer(r.consumers, s),
                                     !.starts = r.starts \cup {s},
                                     !.started = r.started \cup {s.GroupId}],
                           missing, i + 1, failing)

\* Dispatcher.UpdateSubscriptions, the stops: each extra Subscription is
\* stopped; a stop of a group in `failing` fails.
StopUndesired(r, extra, failing) ==
    LET notStopped == {s \in extra : s.GroupId \in failing}
        stopped == extra \ notStopped
    IN [r EXCEPT
          !.consumers = [s \in (DOMAIN r.consumers) \ stopped |-> r.consumers[s]],
          !.failed = [s \in (DOMAIN r.failed) \cup notStopped |->
                        IF s \in notStopped THEN "stop failed" ELSE r.failed[s]],
          !.stops = extra]

\* The Dispatcher applies the difference (missing, extra) to the running
\* consumers
ApplyDifference(running, missing, extra, failing) ==
    StopUndesired(StartDesired([consumers |-> running, failed |-> <<>>,
                                starts |-> {}, stops |-> {}, started |-> {}],
                               missing, 1, failing),
                  extra, failing)

\* Dispatcher.UpdateSubscriptions(subscriptions): the consumers after it,
\* the failed Subscriptions with their errors, and the Subscriptions it
\* called Start and Stop for
UpdateSubscriptions(running, subscriptions, failing) ==
    ApplyDifference(running, Missing(running, subscriptions),
                    Extra(running, subscriptions), failing)

\* The status of one subscriber, the error of a failed one left out
SubscriberStatus_NoMessage(sub, failedSubscriptions) ==
    LET groupId == GroupIdOf(sub.UID)
        subscription == Subscription(sub.SubscriberURI, groupId)
    IN IF subscription \in DOMAIN failedSubscriptions
       THEN [UID |-> sub.UID, ObservedGeneration |-> sub.Generation,
             Ready |-> "False", Message |-> ""]
       ELSE [UID |-> sub.UID, ObservedGeneration |-> sub.Generation,
             Ready |-> "True", Message |-> ""]

\* The body of the loop of createSubscribableStatus: the status of one
\* subscriber
SubscriberStatus(sub, failedSubscriptions) ==
    LET groupId == GroupIdOf(sub.UID)
        subscription == Subscription(sub.SubscriberURI, groupId)
    IN IF subscription \in DOMAIN failedSubscriptions
       THEN [UID |-> sub.UID, ObservedGeneration |-> sub.Generation,
             Ready |-> "False", Message |-> failedSubscriptions[subscription]]
       ELSE [UID |-> sub.UID, ObservedGeneration |-> sub.Generation,
             Ready |-> "True", Message |-> ""]

\* Reconciler.createSubscribableStatus: the Subscribers of the new status
createSubscribableStatus(subscribable, failedSubscriptions) ==
    Slice([i \in 1..Len(subscribable.Subscribers.elems) |->
             SubscriberStatus(subscribable.Subscribers.elems[i], failedSubscriptions)])

\* The subscriptions Reconciler.reconcile builds from the subscribers
SubscriptionsOf(subscribers) ==
    [i \in 1..Len(subscribers.elems) |->
       Subscription(subscribers.elems[i].SubscriberURI,
                    GroupIdOf(subscribers.elems[i].UID))]

\* reconcile without the test for nil subscribers
reconcile_NoNilTest(channel, running, failing) ==
    LET subscriptions == SubscriptionsOf(channel.Spec.Subscribers)
        u == UpdateSubscriptions(running, subscriptions, failing)
    IN [channel |-> [channel EXCEPT !.Status.Subscribers =
                       createSubscribableStatus(channel.Spec, u.failed)],
        consumers |-> u.consumers, called |-> TRUE,
        subscriptions |-> subscriptions, failed |-> u.failed,
        err |-> IF Cardinality(DOMAIN u.failed) > 0
                THEN "Some kafka subscriptions failed to subscribe" ELSE ""]

\* Reconciler.reconcile(channel): the channel with its new status, the
\* consumers, the error returned
reconcile(channel, running, failing) ==
    IF channel.Spec.Subscribers.isNil
    THEN [channel |-> channel, consumers |-> running, called |-> FALSE,
          subscriptions |-> <<>>, failed |-> <<>>, err |-> ""]
    ELSE
      LET subscriptions == SubscriptionsOf(channel.Spec.Subscribers)
          u == UpdateSubscriptions(running, subscriptions, failing)
      IN [channel |-> [channel EXCEPT !.Status.Subscribers =
                         createSubscribableStatus(channel.Spec, u.failed)],
          consumers |-> u.consumers, called |-> TRUE,
          subscriptions |-> subscriptions, failed |-> u.failed,
          err |-> IF Cardinality(DOMAIN u.failed) > 0
                  THEN "Some kafka subscriptions failed to subscribe" ELSE ""]

\* Reconciler.Reconcile up to the call of reconcile: the key, the lookup,
\* the channel key of this dispatcher, the readiness
ReconcileStart(key, listerFails) ==
    /\ rc.pc = "idle"
    /\ LET split == SplitMetaNamespaceKey(key)
           got == ListerGet(split.namespace, split.name, listerFails)
       IN rc' = IF split.err THEN Frame("done", key, NewChannel, "")
                ELSE IF got.err # ""
                THEN IF IsNotFound(got.err) THEN Frame("done", key, NewChannel, "")
                     ELSE Frame("done", key, NewChannel, got.err)
                ELSE IF ChannelKey # key THEN Frame("done", key, NewChannel, "")
                ELSE IF ~IsReady(got.channel.Status)
                THEN Frame("done", key, NewChannel,
                           "Channel is not ready. Cannot configure and update subscriber status")
                ELSE Frame("reconcile", key, DeepCopy(got.channel), "")
    /\ UNCHANGED <<channels, consumers, cacheVars, last, concVars, dispVars>>

\* Reconciler.Reconcile: the call of reconcile
ReconcileChannel(failing) ==
    /\ rc.pc = "reconcile"
    /\ LET r == reconcile(rc.channel, consumers, failing)
       IN /\ rc' = [rc EXCEPT !.pc = "updateStatus", !.channel = r.channel,
                              !.reconcileError = r.err, !.called = r.called,
                              !.subscriptions = r.subscriptions, !.failed = r.failed]
          /\ consumers' = r.consumers
    /\ UNCHANGED <<channels, cacheVars, last, concVars, dispVars>>

\* Two statuses taken as equal when their subscribers are, whatever the
\* rest
DeepEqual_SubscribersOnly(a, b) == a.Subscribers = b.Subscribers

\* reflect.DeepEqual on two statuses: a nil slice and an empty one differ
DeepEqual(a, b) == a = b

\* updateStatus keeping the error of a failed UpdateStatus call to itself
updateStatus_SwallowError(desired, key, listerFails, updateFails) ==
    LET split == SplitMetaNamespaceKey(key)
        got == ListerGet(split.namespace, split.name, listerFails)
        kc == got.channel
    IN IF got.err # ""
       THEN [channels |-> channels, compared |-> FALSE, observed |-> NewChannel.Status,
             wrote |-> FALSE, err |-> got.err]
       ELSE IF DeepEqual(kc.Status, desired.Status)
       THEN [channels |-> channels, compared |-> TRUE, observed |-> kc.Status,
             wrote |-> FALSE, err |-> ""]
       ELSE IF updateFails
       THEN [channels |-> channels, compared |-> TRUE, observed |-> kc.Status,
             wrote |-> TRUE, err |-> ""]
       ELSE LET existing == [DeepCopy(kc) EXCEPT !.Status = desired.Status]
            IN [channels |-> [channels EXCEPT ![<<split.namespace, split.name>>] = existing],
                compared |-> TRUE, observed |-> kc.Status,
                wrote |-> TRUE, err |-> ""]

\* Reconciler.updateStatus(desired): the channels after it, the status it
\* read, whether it compared, whether it called UpdateStatus, the error
updateStatus(desired, key, listerFails, updateFails) ==
    LET split == SplitMetaNamespaceKey(key)
        got == ListerGet(split.namespace, split.name, listerFails)
        kc == got.channel
    IN IF got.err # ""
       THEN [channels |-> channels, compared |-> FALSE, observed |-> NewChannel.Status,
             wrote |-> FALSE, err |-> got.err]
       ELSE IF DeepEqual(kc.Status, desired.Status)
       THEN [channels |-> channels, compared |-> TRUE, observed |-> kc.Status,
             wrote |-> FALSE, err |-> ""]
       ELSE IF updateFails
       THEN [channels |-> channels, compared |-> TRUE, observed |-> kc.Status,
             wrote |-> TRUE, err |-> "update failed"]
       ELSE LET existing == [DeepCopy(kc) EXCEPT !.Status = desired.Status]
            IN [channels |-> [channels EXCEPT ![<<split.namespace, split.name>>] = existing],
                compared |-> TRUE, observed |-> kc.Status,
                wrote |-> TRUE, err |-> ""]

\* Reconciler.Reconcile from the call of updateStatus to its return
ReconcileUpdateStatus(listerFails, updateFails) ==
    /\ rc.pc = "updateStatus"
    /\ LET u == updateStatus(rc.channel, rc.key, listerFails, updateFails)
       IN /\ channels' = u.channels
          /\ rc' = [rc EXCEPT !.pc = "done", !.compared = u.compared,
                              !.observed = u.observed, !.wrote = u.wrote,
                              !.err = u.err]
    /\ UNCHANGED <<consumers, cacheVars, last, concVars, dispVars>>

\* The workqueue has the result of the call
ReconcileReturn ==
    /\ rc.pc = "done"
    /\ rc' = Idle
    /\ UNCHANGED <<channels, consumers, cacheVars, last, concVars, dispVars>>

\* The cluster.  The channel of this dispatcher is created or deleted and
\* its subscribers are edited between two Reconcile calls; its controller
\* sets its readiness at any time.
CreateChannel ==
    /\ rc.pc = "idle"
    /\ ChannelKey \notin DOMAIN channels
    /\ channels' = Put(channels, ChannelKey, NewChannel)
    /\ UNCHANGED <<consumers, rc, cacheVars, last, concVars, dispVars>>

DeleteChannel ==
    /\ rc.pc = "idle"
    /\ ChannelKey \in DOMAIN channels
    /\ channels' = Delete(channels, ChannelKey)
    /\ UNCHANGED <<consumers, rc, cacheVars, last, concVars, dispVars>>

SetSubscribers(subscribers) ==
    /\ rc.pc = "idle"
    /\ ChannelKey \in DOMAIN channels
    /\ channels[ChannelKey].Spec.Subscribers # subscribers
    /\ channels' = [channels EXCEPT ![ChannelKey].Spec.Subscribers = subscribers]
    /\ UNCHANGED <<consumers, rc, cacheVars, last, concVars, dispVars>>

SetReady(ready) ==
    /\ ChannelKey \in DOMAIN channels
    /\ channels[ChannelKey].Status.Ready # ready
    /\ channels' = [channels EXCEPT ![ChannelKey].Status.Ready = ready]
    /\ UNCHANGED <<consumers, rc, cacheVars, last, concVars, dispVars>>

Init ==
    /\ NewCache
    /\ held = {}
    /\ last = NoCall
    /\ NoReconciler
    /\ NoThreads
    /\ NoCallers

\* The caller has taken the result of the call and goes on
Proceed ==
    /\ last # NoCall
    /\ last' = NoCall
    /\ UNCHANGED <<cacheVars, reconVars, concVars, dispVars>>

Next ==
    \/ Proceed
    \/ \E snapshot \in Snapshots : Update(snapshot)
    \/ \E eventhub \in EventHubNames, namespace \in {nil} \cup Ptrs :
          AddEventHub(eventhub, namespace)
    \/ \E eventhub \in EventHubNames : RemoveEventHub(eventhub)
    \/ \E eventhub \in EventHubNames : GetNamespace(eventhub)
    \/ \E order \in IterationOrders(namespaceMap) : GetNamespaceWithMaxCapacity(order)

Spec == Init /\ [][Next]_vars

----------------------------------------------------------------------------
(* Claims about the cache under Spec *)

\* The eventhub-map entries that point to struct p
EntriesOf(p) == {e \in DOMAIN eventhubMap : eventhubMap[e] = p}

\* C3: in every state reached by Update, AddEventHub and RemoveEventHub
\* calls, each namespace's count is the number of eventhub-map entries that
\* point to it.
C3_CountIsEntries ==
    \A p \in Ptrs : heap[p].Count = Cardinality(EntriesOf(p))

\* C4: in every state reached by Update, AddEventHub and RemoveEventHub
\* calls, every entry of the eventhub map points to a struct that is a value
\* of the namespace map.
C4_EntriesInNamespaceMap ==
    \A e \in DOMAIN eventhubMap : eventhubMap[e] \in Range(namespaceMap)

UpdateReturned == last.op = "Update"
UpdateSucceeded == last.op = "Update" /\ last.err = ""
Items == last.snapshot.items

\* GetNamespace(e) returns the struct the namespace map holds under the name
\* of secret i
OwnedBy(e, i) ==
    /\ Items[i].namespace \in DOMAIN namespaceMap
    /\ GetNamespaceOf(TheCache, e) = namespaceMap[Items[i].namespace]
    /\ heap[namespaceMap[Items[i].namespace]].Name = Items[i].namespace

C6_FailedUpdateChangesNothing ==
    [][(last'.op = "Update" /\ last'.err # "") => UNCHANGED cacheVars]_vars

\* the secret of the snapshot that carries name n
WithName(n) == CHOOSE i \in 1..Len(Items) : Items[i].namespace = n

\* C7: after an Update that succeeds the namespace map holds exactly the
\* namespaces of the snapshot, the eventhub map exactly the eventhubs the
\* listings returned, and each namespace's count is the length of its
\* listing.
C7_UpdateReplaces ==
    UpdateSucceeded =>
       /\ DOMAIN namespaceMap = {Items[i].namespace : i \in 1..Len(Items)}
       /\ DOMAIN eventhubMap = UNION {Items[i].list.hubs : i \in 1..Len(Items)}
       /\ \A n \in DOMAIN namespaceMap :
             heap[namespaceMap[n]].Count = Cardinality(Items[WithName(n)].list.hubs)

----------------------------------------------------------------------------
(* SpecAddRemove: AddEventHub and RemoveEventHub calls on any cache whose  *)
(* counts are within capacity                                              *)

\* how many Namespace structs the cache starts with
MaxNamespaces == 2

\* Namespace structs with any count from 0 to the capacity; the structs that
\* are not in the namespace map are the ones callers hold.
InitAddRemove ==
    /\ heap \in SeqsUpTo([Name : NamespaceNames, Count : 0..MaxEventHubsPerNamespace],
                         MaxNamespaces)
    /\ \E mapped \in SUBSET (1..Len(heap)) :
          /\ \A p, q \in mapped : heap[p].Name = heap[q].Name => p = q
          /\ namespaceMap = [n \in {heap[p].Name : p \in mapped} |->
                               CHOOSE p \in mapped : heap[p].Name = n]
          /\ held = (1..Len(heap)) \ mapped
    /\ \E hubs \in SUBSET EventHubNames : eventhubMap \in [hubs -> 1..Len(heap)]
    /\ last = NoCall
    /\ NoReconciler
    /\ NoThreads
    /\ NoCallers

NextAddRemove ==
    \/ Proceed
    \/ \E eventhub \in EventHubNames, namespace \in {nil} \cup Ptrs :
          AddEventHub(eventhub, namespace)
    \/ \E eventhub \in EventHubNames : RemoveEventHub(eventhub)

SpecAddRemove == InitAddRemove /\ [][NextAddRemove]_vars

\* C1: whatever AddEventHub and RemoveEventHub calls are made on a cache
\* whose counts are within capacity, every namespace's count stays between 0
\* and MaxEventHubsPerNamespace.
C1_CapacityInvariant ==
    \A p \in Ptrs : 0 <= heap[p].Count /\ heap[p].Count <= MaxEventHubsPerNamespace

\* An AddEventHub that was refused: the namespace is full and the eventhub
\* is not mapped to it
C1_Witness ==
    /\ last.op = "AddEventHub"
    /\ last.namespace # nil
    /\ heap[last.namespace].Count = MaxEventHubsPerNamespace
    /\ Lookup(eventhubMap, last.eventhub) # last.namespace

\* The struct p after a RemoveEventHub whose eventhub was owned by `owner`:
\* the owner's count one less if it was positive, the rest as it was
AfterRemove(p, owner) ==
    [heap[p] EXCEPT !.Count =
        IF p = owner /\ heap[owner].Count > 0 THEN @ - 1 ELSE @]

\* The pointer of held' at the place of p in held
HeldAfter(p) ==
    CHOOSE q \in held' :
       Cardinality({x \in held' : x <= q}) = Cardinality({x \in held : x <= p})

\* C20: after RemoveEventHub(t), GetNamespace(t) returns nil whether t had
\* a namespace or not; the count of t's namespace is one less if it was
\* positive and no other count changes; every other eventhub entry and
\* every namespace is as before; and a RemoveEventHub(t) of an eventhub
\* that has no entry, as right after the first, changes nothing.
C20_RemoveEventHub ==
    [][(last = NoCall /\ last'.op = "RemoveEventHub") =>
         LET t == last'.eventhub
             owner == Lookup(eventhubMap, t)
         IN /\ t \notin DOMAIN eventhubMap'
            /\ DOMAIN eventhubMap' = (DOMAIN eventhubMap) \ {t}
            /\ \A k \in DOMAIN eventhubMap' :
                  heap'[eventhubMap'[k]] = AfterRemove(eventhubMap[k], owner)
            /\ \A k1, k2 \in DOMAIN eventhubMap' :
                  eventhubMap'[k1] = eventhubMap'[k2] <=> eventhubMap[k1] = eventhubMap[k2]
            /\ DOMAIN namespaceMap' = DOMAIN namespaceMap
            /\ \A n \in DOMAIN namespaceMap :
                  heap'[namespaceMap'[n]] = AfterRemove(namespaceMap[n], owner)
            /\ Cardinality(held') = Cardinality(held)
            /\ \A p \in held : heap'[HeldAfter(p)] = AfterRemove(p, owner)
            /\ t \notin DOMAIN eventhubMap => UNCHANGED cacheVars
      ]_vars

\* RemoveEventHub has returned: the eventhub has no entry, another eventhub
\* has one, and its namespace still counts an eventhub
C20_Witness ==
    /\ last.op = "RemoveEventHub"
    /\ last.eventhub \notin DOMAIN eventhubMap
    /\ \E k \in DOMAIN eventhubMap : heap[eventhubMap[k]].Count > 0

\* AddEventHub(t, ns) passes the test of cache.go:116
Admitted(ns) == ns # nil /\ heap[ns].Count < MaxEventHubsPerNamespace

\* The struct p after an admitted AddEventHub to ns: the count of ns one
\* more, the rest as it was
AfterAdd(p, ns) == [heap[p] EXCEPT !.Count = IF p = ns THEN @ + 1 ELSE @]

\* What C21 says of a step that is the call AddEventHub(t, ns)
AddEventHubEffect(t, ns) ==
    IF ~Admitted(ns)
    THEN /\ UNCHANGED cacheVars
         /\ Lookup(eventhubMap', t) = Lookup(eventhubMap, t)
    ELSE /\ Lookup(eventhubMap', t) = last'.namespace
         /\ last'.namespace # nil
         /\ heap'[last'.namespace] = AfterAdd(ns, ns)
         /\ heap'[last'.namespace].Count = heap[ns].Count + 1
         /\ DOMAIN eventhubMap' = (DOMAIN eventhubMap) \cup {t}
         /\ \A k \in (DOMAIN eventhubMap) \ {t} :
               /\ heap'[eventhubMap'[k]] = AfterAdd(eventhubMap[k], ns)
               /\ eventhubMap'[k] = last'.namespace <=> eventhubMap[k] = ns
         /\ \A k1, k2 \in (DOMAIN eventhubMap) \ {t} :
               eventhubMap'[k1] = eventhubMap'[k2] <=> eventhubMap[k1] = eventhubMap[k2]
         /\ DOMAIN namespaceMap' = DOMAIN namespaceMap
         /\ \A n \in DOMAIN namespaceMap :
               /\ heap'[namespaceMap'[n]] = AfterAdd(namespaceMap[n], ns)
               /\ namespaceMap'[n] = last'.namespace <=> namespaceMap[n] = ns
         /\ Cardinality(held') = Cardinality(held)
         /\ \A p \in held : heap'[HeldAfter(p)] = AfterAdd(p, ns)

\* C21: AddEventHub(t, ns) with ns nil or its count at the capacity changes
\* nothing, and GetNamespace(t) returns what it returned before; otherwise
\* the count of ns is one more and GetNamespace(t) returns ns, and every
\* other namespace and every other eventhub entry is as before.
C21_AddEventHubGuard ==
    [][\A t \in EventHubNames, ns \in {nil} \cup Ptrs :
          AddEventHub(t, ns) => AddEventHubEffect(t, ns)]_vars

\* An admitted AddEventHub has returned: the eventhub is mapped to the
\* namespace given, while another eventhub is mapped to another namespace
C21_Witness ==
    /\ last.op = "AddEventHub"
    /\ last.namespace # nil
    /\ Lookup(eventhubMap, last.eventhub) = last.namespace
    /\ heap[last.namespace].Count < MaxEventHubsPerNamespace
    /\ \E k \in DOMAIN eventhubMap : eventhubMap[k] # last.namespace

----------------------------------------------------------------------------
(* SpecSelect: GetNamespaceWithMaxCapacity over any namespace map, in any  *)
(* iteration order                                                         *)

SelectNames == {"A", "B", "C"}

\* Any set of namespaces, each with any count up to one over the capacity
\* (Update takes the count from the listing, whatever its length)
InitSelect ==
    /\ heap \in SeqsUpTo([Name : SelectNames, Count : 0..(MaxEventHubsPerNamespace + 1)],
                         Cardinality(SelectNames))
    /\ \A p, q \in 1..Len(heap) : heap[p].Name = heap[q].Name => p = q
    /\ namespaceMap = [n \in {heap[p].Name : p \in 1..Len(heap)} |->
                         CHOOSE p \in 1..Len(heap) : heap[p].Name = n]
    /\ eventhubMap = <<>>
    /\ held = {}
    /\ last = NoCall
    /\ NoReconciler
    /\ NoThreads
    /\ NoCallers

NextSelect ==
    \/ Proceed
    \/ \E order \in IterationOrders(namespaceMap) : GetNamespaceWithMaxCapacity(order)

SpecSelect == InitSelect /\ [][NextSelect]_vars

\* The namespaces of the map that are strictly below capacity
BelowCapacity ==
    {p \in Range(namespaceMap) : heap[p].Count < MaxEventHubsPerNamespace}

\* C2: GetNamespaceWithMaxCapacity returns a namespace of the map that is
\* strictly below capacity and has the least count of all that are; it
\* returns nil exactly when no namespace of the map is below capacity.
C2_SelectionCorrect ==
    last.op = "GetNamespaceWithMaxCapacity" =>
       /\ (last.ret = nil) <=> (BelowCapacity = {})
       /\ last.ret # nil =>
            /\ last.ret \in BelowCapacity
            /\ \A q \in BelowCapacity : heap[last.ret].Count <= heap[q].Count

\* A scan of three namespaces that meets a full one first, then one with
\* room, and returns a third with fewer eventhubs
C2_Witness ==
    /\ last.op = "GetNamespaceWithMaxCapacity"
    /\ Len(last.order) = 3
    /\ heap[namespaceMap[last.order[1]]].Count >= MaxEventHubsPerNamespace
    /\ namespaceMap[last.order[2]] \in BelowCapacity
    /\ last.ret = namespaceMap[last.order[3]]
    /\ heap[last.ret].Count < heap[namespaceMap[last.order[2]]].Count

----------------------------------------------------------------------------
(* SpecReconcile: Reconcile calls, one at a time, in a cluster that changes *)

\* The channel of another dispatcher exists; this dispatcher's does not yet
InitReconcile ==
    /\ NewCache
    /\ held = {}
    /\ last = NoCall
    /\ channels = (OtherKey :> NewChannel)
    /\ consumers = <<>>
    /\ rc = Idle
    /\ NoThreads
    /\ NoCallers

NextReconcile ==
    \/ \E key \in Keys, listerFails \in BOOLEAN : ReconcileStart(key, listerFails)
    \/ \E failing \in SUBSET GroupIds : ReconcileChannel(failing)
    \/ \E listerFails \in BOOLEAN, updateFails \in BOOLEAN :
          ReconcileUpdateStatus(listerFails, updateFails)
    \/ ReconcileReturn
    \/ CreateChannel
    \/ DeleteChannel
    \/ \E subscribers \in SubscriberLists : SetSubscribers(subscribers)
    \/ \E ready \in BOOLEAN : SetReady(ready)

SpecReconcile == InitReconcile /\ [][NextReconcile]_vars

\* Reconcile has called the Dispatcher and computed the status
Converged == rc.pc \in {"updateStatus", "done"} /\ rc.called

Declared == rc.channel.Spec.Subscribers.elems
Computed == rc.channel.Status.Subscribers

\* The Subscription of a declared subscriber: its URI, the group kafka.<uid>
DeclaredSubscription(sub) == [URI |-> sub.SubscriberURI, GroupId |-> "kafka." \o sub.UID]

\* C9: after a reconcile that calls the Dispatcher the computed status has
\* one entry per declared subscriber, in order, with its UID and generation;
\* the entry is not ready, with the error's message, exactly when the
\* subscriber's Subscription is in the failure mapping the Dispatcher
\* returned, and ready with no message otherwise.
C9_StatusExact ==
    Converged =>
       /\ ~Computed.isNil
       /\ Len(Computed.elems) = Len(Declared)
       /\ \A i \in 1..Len(Declared) :
             /\ Computed.elems[i].UID = Declared[i].UID
             /\ Computed.elems[i].ObservedGeneration = Declared[i].Generation
             /\ IF DeclaredSubscription(Declared[i]) \in DOMAIN rc.failed
                THEN /\ Computed.elems[i].Ready = "False"
                     /\ Computed.elems[i].Message =
                           rc.failed[DeclaredSubscription(Declared[i])]
                ELSE /\ Computed.elems[i].Ready = "True"
                     /\ Computed.elems[i].Message = ""

\* A reconcile of two subscribers: the consumer of the first started, the
\* start of the second failed
C9_Witness ==
    /\ Converged
    /\ Len(Declared) = 2
    /\ Computed.elems[1].Ready = "True"
    /\ Computed.elems[2].Ready = "False"
    /\ Computed.elems[2].Message = "start failed"

\* C10: whenever the Dispatcher returns a failure mapping that is not empty,
\* Reconcile returns an error.
C10_FailureIsReturned ==
    (rc.pc = "done" /\ rc.called /\ DOMAIN rc.failed # {}) => rc.err # ""

\* C14: in a reconcile that gets to compare the statuses, UpdateStatus is
\* called if and only if the status computed differs structurally from the
\* status read from the store; so a reconcile that computes the status the
\* store already holds writes nothing.
C14_WriteIffChanged ==
    (rc.pc = "done" /\ rc.compared) =>
       (rc.wrote <=> rc.observed # rc.channel.Status)

\* A reconcile that started a consumer and computed the status the store
\* already held: it wrote nothing
C14_Witness ==
    /\ rc.pc = "done"
    /\ rc.compared
    /\ rc.called
    /\ ~rc.wrote
    /\ Len(rc.channel.Status.Subscribers.elems) > 0

\* The status of subscriber u1, ready
ReadyU1 == [UID |-> "u1", ObservedGeneration |-> 1, Ready |-> "True", Message |-> ""]

\* The Reconcile call makes its reconcile step, and the Dispatcher reports
\* no failure
ReconcileStep ==
    rc.pc = "reconcile" /\ rc'.pc = "updateStatus" /\ DOMAIN rc'.failed = {}

\* C15: for a ready channel, a reconcile of the declared subscribers [u1]
\* starts consumer group kafka.u1 and computes the status u1 ready; a
\* following reconcile, after u1 is removed and no subscriber is left, stops
\* consumer group kafka.u1 and computes an empty subscriber list.
C15_AddThenRemove ==
    [][/\ (/\ ReconcileStep
           /\ rc.channel.Spec.Subscribers.elems = <<SubscriberSpec("u1", "http://a", 1)>>)
          => /\ "kafka.u1" \in RunningGroups(consumers')
             /\ rc'.channel.Status.Subscribers.elems = <<ReadyU1>>
       /\ (/\ ReconcileStep
           /\ Len(rc.channel.Spec.Subscribers.elems) = 0
           /\ rc.channel.Status.Subscribers.elems = <<ReadyU1>>
           /\ "kafka.u1" \in RunningGroups(consumers))
          => /\ "kafka.u1" \notin RunningGroups(consumers')
             /\ Len(rc'.channel.Status.Subscribers.elems) = 0
      ]_vars

\* The Reconcile call has passed the key filter and the readiness test and
\* made its reconcile step
Reconciled == rc.pc = "updateStatus"

\* C16: in a reconcile that passes the key filter and the readiness test,
\* when the declared subscriber list is absent (nil) or empty, the reconcile
\* step succeeds and the Dispatcher is not called.
C16_NoSubscribersNoCall ==
    (Reconciled /\ Len(rc.channel.Spec.Subscribers.elems) = 0) =>
       (~rc.called /\ rc.reconcileError = "")

\* C16 as amended: when the declared subscriber list is absent (nil) the
\* reconcile step succeeds and the Dispatcher is not called; when it is
\* present with no element the Dispatcher is called with no subscription.
C16_AbsentNoCall ==
    /\ (Reconciled /\ rc.channel.Spec.Subscribers.isNil) =>
          (~rc.called /\ rc.reconcileError = "")
    /\ (Reconciled /\ ~rc.channel.Spec.Subscribers.isNil
                   /\ Len(rc.channel.Spec.Subscribers.elems) = 0) =>
          (rc.called /\ rc.subscriptions = <<>>)

\* A reconcile of a channel with nil subscribers while a consumer runs
C16_Witness ==
    /\ Reconciled
    /\ rc.channel.Spec.Subscribers.isNil
    /\ consumers # <<>>

NotReadyError == "Channel is not ready. Cannot configure and update subscriber status"

\* C17: when a reconcile for the channel of this dispatcher runs and the
\* channel is not ready, Reconcile returns an error, and in that reconcile
\* the Dispatcher is not called and no status is written: the consumers and
\* the stored channels stay as they are.
C17_NotReadyFailsFast ==
    [][(/\ rc.pc = "idle"
        /\ rc'.pc # "idle"
        /\ rc'.key = ChannelKey
        /\ ChannelKey \in DOMAIN channels
        /\ ~channels[ChannelKey].Status.Ready)
       => /\ rc'.pc = "done"
          /\ rc'.err # ""
          /\ ~rc'.called
          /\ ~rc'.wrote
          /\ consumers' = consumers
          /\ channels' = channels
      ]_vars

\* A reconcile has returned the readiness error for a channel that has
\* subscribers and a running consumer
C17_Witness ==
    /\ rc.pc = "done"
    /\ rc.key = ChannelKey
    /\ rc.err = NotReadyError
    /\ ChannelKey \in DOMAIN channels
    /\ Len(channels[ChannelKey].Spec.Subscribers.elems) > 0
    /\ consumers # <<>>

\* C18: a reconcile for a key other than the channel key of this dispatcher
\* returns no error, calls no Dispatcher and writes no status, whatever the
\* lookup of that key gives.
C18_OtherKeysIgnored ==
    (rc.pc = "done" /\ rc.key # ChannelKey) =>
       (rc.err = "" /\ ~rc.called /\ ~rc.wrote)

\* What Reconcile returns when updateStatus fails in a step taken with the
\* lister failing (listerFails) or UpdateStatus failing (updateFails): the
\* error of the lookup, or the error of the UpdateStatus call it made
WriteBackErrorReturned(listerFails, updateFails) ==
    /\ listerFails => rc'.err = "lister error"
    /\ (rc'.wrote /\ updateFails) => rc'.err = "update failed"

C23_NoLostStatusUpdate ==
    [][(rc.pc = "updateStatus" /\ rc'.pc = "done" /\ rc'.wrote /\ rc'.err = "")
          => channels'[ChannelKey].Status =
                [channels[ChannelKey].Status
                    EXCEPT !.Subscribers = rc.channel.Status.Subscribers]]_vars

(***************************************************************************)
(* Concurrent callers.  The Cache struct has no lock, and none of its      *)
(* methods takes one, so goroutines that call it at the same time          *)
(* interleave at each read and write of a count or of a map.  Each step    *)
(* below is one such read or write; the interleavings are the sequentially *)
(* consistent ones.  Each goroutine makes one call.                        *)
(***************************************************************************)
Threads == {"g1", "g2"}

\* A goroutine's frame: the call it makes, where it is, its locals
ThreadFrame(pc, op, eventhub, namespace, order) ==
    [pc |-> pc, op |-> op, eventhub |-> eventhub, namespace |-> namespace,
     order |-> order, i |-> 1, count |-> 0, ret |-> nil]

Ready == ThreadFrame("ready", "", "", nil, <<>>)

\* The frames of the calls a goroutine can make on the cache
CallFrames ==
    {ThreadFrame("AddCheck", "AddEventHub", e, n, <<>>) :
        e \in EventHubNames, n \in {nil} \cup Ptrs}
    \cup {ThreadFrame("RemoveGet", "RemoveEventHub", e, nil, <<>>) : e \in EventHubNames}
    \cup {ThreadFrame("Get", "GetNamespace", e, nil, <<>>) : e \in EventHubNames}
    \cup {ThreadFrame("Scan", "GetNamespaceWithMaxCapacity", "", nil, o) :
            o \in IterationOrders(namespaceMap)}

\* The goroutine enters its call
Enter(t, frame) ==
    /\ threads[t].pc = "ready"
    /\ threads' = [threads EXCEPT ![t] = frame]
    /\ UNCHANGED <<cacheVars, last, reconVars, start, dispVars>>

\* AddEventHub: the condition on the namespace and its count
AddCheck(t) ==
    LET f == threads[t]
    IN /\ f.pc = "AddCheck"
       /\ threads' = [threads EXCEPT ![t].pc =
             IF f.namespace # nil /\ heap[f.namespace].Count < MaxEventHubsPerNamespace
             THEN "AddLoad" ELSE "returned"]
       /\ UNCHANGED <<cacheVars, last, reconVars, start, dispVars>>

\* AddEventHub: the read of namespace.Count in namespace.Count + 1
AddLoad(t) ==
    LET f == threads[t]
    IN /\ f.pc = "AddLoad"
       /\ threads' = [threads EXCEPT ![t].pc = "AddStore",
                                     ![t].count = heap[f.namespace].Count]
       /\ UNCHANGED <<cacheVars, last, reconVars, start, dispVars>>

\* AddEventHub: the write of namespace.Count
AddStore(t) ==
    LET f == threads[t]
    IN /\ f.pc = "AddStore"
       /\ heap' = [heap EXCEPT ![f.namespace].Count = f.count + 1]
       /\ threads' = [threads EXCEPT ![t].pc = "AddMap"]
       /\ UNCHANGED <<namespaceMap, eventhubMap, held, last, reconVars, start, dispVars>>

\* AddEventHub: the write of the eventhub's entry
AddMap(t) ==
    LET f == threads[t]
    IN /\ f.pc = "AddMap"
       /\ eventhubMap' = Put(eventhubMap, f.eventhub, f.namespace)
       /\ threads' = [threads EXCEPT ![t].pc = "returned"]
       /\ UNCHANGED <<heap, namespaceMap, held, last, reconVars, start, dispVars>>

\* RemoveEventHub: the lookup of the eventhub's namespace
RemoveGet(t) ==
    LET f == threads[t]
    IN /\ f.pc = "RemoveGet"
       /\ threads' = [threads EXCEPT ![t].pc = "RemoveCheck",
                                     ![t].namespace = Lookup(eventhubMap, f.eventhub)]
       /\ UNCHANGED <<cacheVars, last, reconVars, start, dispVars>>

\* RemoveEventHub: the condition on the namespace and its count
RemoveCheck(t) ==
    LET f == threads[t]
    IN /\ f.pc = "RemoveCheck"
       /\ threads' = [threads EXCEPT ![t].pc =
             IF f.namespace # nil /\ heap[f.namespace].Count > 0
             THEN "RemoveLoad" ELSE "RemoveDelete"]
       /\ UNCHANGED <<cacheVars, last, reconVars, start, dispVars>>

\* RemoveEventHub: the read of namespace.Count in namespace.Count - 1
RemoveLoad(t) ==
    LET f == threads[t]
    IN /\ f.pc = "RemoveLoad"
       /\ threads' = [threads EXCEPT ![t].pc = "RemoveStore",
                                     ![t].count = heap[f.namespace].Count]
       /\ UNCHANGED <<cacheVars, last, reconVars, start, dispVars>>

\* RemoveEventHub: the write of namespace.Count
RemoveStore(t) ==
    LET f == threads[t]
    IN /\ f.pc = "RemoveStore"
       /\ heap' = [heap EXCEPT ![f.namespace].Count = f.count - 1]
       /\ threads' = [threads EXCEPT ![t].pc = "RemoveDelete"]
       /\ UNCHANGED <<namespaceMap, eventhubMap, held, last, reconVars, start, dispVars>>

\* RemoveEventHub: the delete of the eventhub's entry
RemoveDelete(t) ==
    LET f == threads[t]
    IN /\ f.pc = "RemoveDelete"
       /\ eventhubMap' = Delete(eventhubMap, f.eventhub)
       /\ threads' = [threads EXCEPT ![t].pc = "returned"]
       /\ UNCHANGED <<heap, namespaceMap, held, last, reconVars, start, dispVars>>

\* GetNamespace: the lookup
Get(t) ==
    LET f == threads[t]
    IN /\ f.pc = "Get"
       /\ threads' = [threads EXCEPT ![t].pc = "returned",
                                     ![t].ret = Lookup(eventhubMap, f.eventhub)]
       /\ UNCHANGED <<cacheVars, last, reconVars, start, dispVars>>

\* GetNamespaceWithMaxCapacity: one iteration of the loop, or its end
Scan(t) ==
    LET f == threads[t]
    IN /\ f.pc = "Scan"
       /\ IF f.i > Len(f.order)
          THEN threads' = [threads EXCEPT ![t].pc = "returned"]
          ELSE LET step == ScanNamespace(heap, Lookup(namespaceMap, f.order[f.i]), f.ret)
               IN threads' = [threads EXCEPT
                     ![t].ret = step.max,
                     ![t].i = f.i + 1,
                     ![t].pc = IF step.break THEN "returned" ELSE "Scan"]
       /\ UNCHANGED <<cacheVars, last, reconVars, start, dispVars>>

\* The goroutines start on a cache that one Update has filled
InitConc ==
    /\ \E snapshot \in Snapshots :
          LET r == UpdateResult([heap |-> <<>>, namespaceMap |-> <<>>,
                                 eventhubMap |-> <<>>, err |-> ""], snapshot)
          IN /\ r.err = ""
             /\ heap = r.heap
             /\ namespaceMap = r.namespaceMap
             /\ eventhubMap = r.eventhubMap
    /\ held = {}
    /\ last = NoCall
    /\ NoReconciler
    /\ threads = [t \in Threads |-> Ready]
    /\ start = TheCache
    /\ NoCallers

NextConc ==
    \E t \in Threads :
       \/ \E frame \in CallFrames : Enter(t, frame)
       \/ AddCheck(t)
       \/ AddLoad(t)
       \/ AddStore(t)
       \/ AddMap(t)
       \/ RemoveGet(t)
       \/ RemoveCheck(t)
       \/ RemoveLoad(t)
       \/ RemoveStore(t)
       \/ RemoveDelete(t)
       \/ Get(t)
       \/ Scan(t)

SpecConc == InitConc /\ [][NextConc]_vars

\* The cache and the result that the call of frame f, made alone on cache c,
\* leaves
Alone(c, f) ==
    IF f.op = "AddEventHub"
    THEN [c |-> AddEventHubResult(c, f.eventhub, f.namespace), ret |-> nil]
    ELSE IF f.op = "RemoveEventHub"
    THEN [c |-> RemoveEventHubResult(c, f.eventhub), ret |-> nil]
    ELSE IF f.op = "GetNamespace"
    THEN [c |-> c, ret |-> GetNamespaceOf(c, f.eventhub)]
    ELSE [c |-> c, ret |-> MaxCapacityScan(c.heap, c.namespaceMap, f.order, 1, nil)]

\* The calls of goroutines t then u made one after the other give what the
\* goroutines got
OneAfterTheOther(t, u) ==
    LET first == Alone(start, threads[t])
        second == Alone(first.c, threads[u])
    IN /\ second.c = TheCache
       /\ first.ret = threads[t].ret
       /\ second.ret = threads[u].ret

AllReturned == \A t \in Threads : threads[t].pc = "returned"

\* C8: cache calls are mutually exclusive.  Whatever the interleaving of two
\* concurrent calls, each takes effect as one atomic unit: once both have
\* returned, the cache and the results are those of the two calls made one
\* after the other, in one order or the other; and no count ever exceeds
\* the maximum capacity.
C8_CallsAreAtomic ==
    /\ \A p \in Ptrs : heap[p].Count <= MaxEventHubsPerNamespace
    /\ AllReturned => \E t, u \in Threads : t # u /\ OneAfterTheOther(t, u)

(***************************************************************************)
(* The Dispatcher on its own.  Its callers call UpdateSubscriptions with   *)
(* any desired subscriptions.  In SpecConverge one caller makes one call   *)
(* after the other and `converged` keeps the last two.  In SpecDispatcher  *)
(* two callers call at the same time; the call takes the Dispatcher's      *)
(* lock, computes the difference of desired and running, applies it and    *)
(* releases the lock.                                                      *)
(***************************************************************************)
Callers == {"r1", "r2"}

\* The Subscriptions the reconciler can build from the subscribers
Subscriptions ==
    {Subscription(x.SubscriberURI, GroupIdOf(x.UID)) : x \in SubscriberSpecs}
SubscriptionLists == SeqsUpTo(Subscriptions, MaxSubscribers)

\* The frame of an UpdateSubscriptions call
Converging(pc, subscriptions, missing, extra) ==
    [pc |-> pc, subscriptions |-> subscriptions, missing |-> missing,
     extra |-> extra]
NotConverging == Converging("idle", <<>>, <<>>, {})

\* The lock taken whether it is free or not
CanLock_Always(m) == TRUE

\* The Dispatcher's lock can be taken when no caller holds it
CanLock(m) == m = ""

\* UpdateSubscriptions(subscriptions): the caller takes the lock
ConvergeLock(t, subscriptions) ==
    /\ converging[t].pc = "idle"
    /\ CanLock(mutex)
    /\ mutex' = t
    /\ converging' = [converging EXCEPT ![t] =
                         Converging("locked", subscriptions, <<>>, {})]
    /\ UNCHANGED <<cacheVars, last, reconVars, concVars, converged>>

\* UpdateSubscriptions: the difference of desired and running
ConvergeDiff(t) ==
    LET f == converging[t]
    IN /\ f.pc = "locked"
       /\ converging' = [converging EXCEPT ![t] =
             Converging("differed", f.subscriptions,
                        Missing(consumers, f.subscriptions),
                        Extra(consumers, f.subscriptions))]
       /\ UNCHANGED <<cacheVars, last, reconVars, concVars, mutex, converged>>

\* UpdateSubscriptions: the starts and the stops; those of the groups in
\* `failing` fail
ConvergeApply(t, failing) ==
    LET f == converging[t]
        r == ApplyDifference(consumers, f.missing, f.extra, failing)
    IN /\ f.pc = "differed"
       /\ consumers' = r.consumers
       /\ converging' = [converging EXCEPT ![t].pc = "applied"]
       /\ UNCHANGED <<cacheVars, last, channels, rc, concVars, mutex, converged>>

\* UpdateSubscriptions returns: the lock is released
ConvergeUnlock(t) ==
    /\ converging[t].pc = "applied"
    /\ mutex' = ""
    /\ converging' = [converging EXCEPT ![t] = NotConverging]
    /\ UNCHANGED <<cacheVars, last, reconVars, concVars, converged>>

InitDispatcher ==
    /\ NewCache
    /\ held = {}
    /\ last = NoCall
    /\ NoReconciler
    /\ NoThreads
    /\ mutex = ""
    /\ converging = [t \in Callers |-> NotConverging]
    /\ converged = [n |-> 0, prev |-> NoneCompleted, cur |-> NoneCompleted]

NextDispatcher ==
    \E t \in Callers :
       \/ \E subscriptions \in SubscriptionLists : ConvergeLock(t, subscriptions)
       \/ ConvergeDiff(t)
       \/ \E failing \in SUBSET GroupIds : ConvergeApply(t, failing)
       \/ ConvergeUnlock(t)

SpecDispatcher == InitDispatcher /\ [][NextDispatcher]_vars

\* A whole UpdateSubscriptions(subscriptions) call of the only caller
Converge(subscriptions, failing) ==
    LET r == UpdateSubscriptions(consumers, subscriptions, failing)
    IN /\ consumers' = r.consumers
       /\ converged' = [n |-> IF converged.n < 2 THEN converged.n + 1 ELSE 2,
                        prev |-> Earlier(converged.cur),
                        cur |-> Completed({subscriptions[i] : i \in 1..Len(subscriptions)},
                                          consumers, failing, r.starts, r.stops,
                                          r.failed)]
       /\ UNCHANGED <<cacheVars, last, channels, rc, concVars, mutex, converging>>

InitConverge ==
    /\ NewCache
    /\ held = {}
    /\ last = NoCall
    /\ NoReconciler
    /\ NoThreads
    /\ NoCallers

NextConverge ==
    \E subscriptions \in SubscriptionLists, failing \in SUBSET GroupIds :
       Converge(subscriptions, failing)

SpecConverge == InitConverge /\ [][NextConverge]_vars

\* The last call was made right after another with the same desired set
SameDesiredAgain ==
    converged.n = 2 /\ converged.cur.desired = converged.prev.desired

\* C11: when UpdateSubscriptions(D) returns no failure, an immediately
\* following UpdateSubscriptions(D) calls neither Start nor Stop and leaves
\* the running consumers as they were.
C11_IdempotentConvergence ==
    (SameDesiredAgain /\ DOMAIN converged.prev.failed = {}) =>
       /\ converged.cur.starts = {}
       /\ converged.cur.stops = {}
       /\ consumers = converged.cur.before

\* Two calls with the same two subscribers, the first without failure; the
\* consumers of both run
C11_Witness ==
    /\ SameDesiredAgain
    /\ DOMAIN converged.prev.failed = {}
    /\ Cardinality(converged.cur.desired) = 2
    /\ Cardinality(RunningGroups(consumers)) = 2

GroupsOf(S) == {s.GroupId : s \in S}

\* C12: in one UpdateSubscriptions call the mapping returned holds exactly
\* the Subscriptions whose Start or Stop failed; every group with no
\* Subscription in it is converged, running if and only if desired, whatever
\* failed for the others; and a following call with the same desired set
\* calls Start and Stop only for Subscriptions that failed before.
C12_PartialFailureIsolation ==
    /\ converged.n > 0 =>
         /\ DOMAIN converged.cur.failed =
               {s \in converged.cur.starts \cup converged.cur.stops :
                   s.GroupId \in converged.cur.failing}
         /\ \A g \in GroupIds \ GroupsOf(DOMAIN converged.cur.failed) :
               g \in RunningGroups(consumers) <=> g \in GroupsOf(converged.cur.desired)
    /\ SameDesiredAgain =>
         converged.cur.starts \cup converged.cur.stops \subseteq DOMAIN converged.prev.failed

\* Desired {S1, S2}: the first call started one and failed to start the
\* other, the second call started the other only
C12_Witness ==
    /\ SameDesiredAgain
    /\ Cardinality(converged.cur.desired) = 2
    /\ Cardinality(DOMAIN converged.prev.failed) = 1
    /\ converged.cur.starts = DOMAIN converged.prev.failed
    /\ DOMAIN converged.cur.failed = {}
    /\ Cardinality(RunningGroups(consumers)) = 2

InFlight == {t \in Callers : converging[t].pc # "idle"}

\* C13: in every state of the Dispatcher each consumer group has at most one
\* running consumer process, and at most one UpdateSubscriptions call is in
\* flight.
C13_OneConsumerPerGroup ==
    /\ \A g \in GroupIds : ProcessesOf(consumers, g) <= 1
    /\ Cardinality(InFlight) <= 1

\* A call holds the lock and is about to start a consumer next to one that
\* runs
C13_Witness ==
    /\ mutex # ""
    /\ \E t \in Callers : /\ converging[t].pc = "differed"
                          /\ Len(converging[t].missing) > 0
    /\ consumers # <<>>

(***************************************************************************)
(* The status computed from any failure mapping.  The mapping comes from   *)
(* the Dispatcher; here it is any map[Subscription]error over the          *)
(* Subscriptions, and reconcile's two loops run on it: the one building    *)
(* the subscriptions and createSubscribableStatus.                         *)
(***************************************************************************)
Errors == {"start failed", "stop failed"}

\* Every failure mapping over the Subscriptions
FailureMappings ==
    UNION {[keys -> Errors] : keys \in SUBSET Subscriptions}

InitStatus ==
    /\ NewCache
    /\ held = {}
    /\ last = NoCall
    /\ NoThreads
    /\ NoCallers
    /\ consumers = <<>>
    /\ \E subscribers \in SubscriberLists \ {NilSlice}, failed \in FailureMappings :
          LET channel == KafkaChannel(subscribers, TRUE, NilSlice)
          IN /\ channels = (ChannelKey :> channel)
             /\ rc = [Frame("reconcile", ChannelKey, channel, "") EXCEPT
                         !.failed = failed]

\* Reconciler.reconcile around the Dispatcher call: the subscriptions built
\* before it, the status built after it from the mapping returned
BuildStatus ==
    /\ rc.pc = "reconcile"
    /\ rc' = [rc EXCEPT
                !.pc = "updateStatus",
                !.called = TRUE,
                !.subscriptions = SubscriptionsOf(rc.channel.Spec.Subscribers),
                !.channel.Status.Subscribers =
                    createSubscribableStatus(rc.channel.Spec, rc.failed),
                !.reconcileError =
                    IF Cardinality(DOMAIN rc.failed) > 0
                    THEN "Some kafka subscriptions failed to subscribe" ELSE ""]
    /\ UNCHANGED <<channels, consumers, cacheVars, last, concVars, dispVars>>

NextStatus == BuildStatus

SpecStatus == InitStatus /\ [][NextStatus]_vars

\* C19: the consumer group of a subscriber is exactly kafka.<uid>, and a
\* Subscription is identified by it alone: a failure recorded in the mapping
\* under a Subscription of the same subscriber, whatever its URI, is found
\* when the subscriber's status is built.
C19_IdentityByUid ==
    Converged =>
       \A i \in 1..Len(Declared) :
          /\ rc.subscriptions[i].GroupId = "kafka." \o Declared[i].UID
          /\ (\E k \in DOMAIN rc.failed : k.GroupId = "kafka." \o Declared[i].UID)
                => Computed.elems[i].Ready = "False"

====
